---- MODULE Spec2Model ----
(***************************************************************************)
(* A model of QuantFin-AnalyticX: the Black-Scholes-Merton pricing         *)
(* function (src/src/pricing.py), the Greek calculator (src/src/greeks.py),*)
(* the portfolio page (src/pages/1_thePortfolio.py) and the delta-hedging  *)
(* simulation page (src/pages/3_theSimulation.py).                         *)
(*                                                                         *)
(* Real numbers are fixed-point integers in units of 1/SC (SC = 1000):     *)
(* 1.5 is 1500.  Every product and quotient rounds to the nearest unit, as a *)
(* floating-point operation rounds, so identities between reals hold up to *)
(* a few units in the last place only.                                     *)
(***************************************************************************)
EXTENDS Integers, Sequences, FiniteSets, TLC

\* ----------------------------------------------------------------------
\* Fixed-point arithmetic (numpy / Python float operations)
\* ----------------------------------------------------------------------

\* One unit of the fixed-point representation: the value 1.0.
SC == 10 * 10 * 10

Abs(x) == IF x < 0 THEN -x ELSE x

Sign(x) == IF x < 0 THEN -1 ELSE IF x > 0 THEN 1 ELSE 0

\* Integer quotient rounded to the nearest integer (halves away from zero), so
\* that TDiv(-a, b) = -TDiv(a, b).
TDiv(a, b) == Sign(a) * Sign(b) * ((Abs(a) + Abs(b) \div 2) \div Abs(b))

\* x * y and x / y of two fixed-point numbers.
FMul(x, y) == TDiv(x * y, SC)

FDiv(x, y) == TDiv(x * SC, y)

\* Python's max(a, b) and min(a, b).
Max(a, b) == IF a >= b THEN a ELSE b

Min(a, b) == IF a <= b THEN a ELSE b

\* The largest n with n * n <= v, by bisection on lo..hi.
RECURSIVE ISqrtIter(_, _, _)
ISqrtIter(v, lo, hi) ==
    IF lo >= hi THEN lo
    ELSE LET mid == (lo + hi + 1) \div 2
         IN  IF mid * mid <= v THEN ISqrtIter(v, mid, hi)
             ELSE ISqrtIter(v, lo, mid - 1)

\* np.sqrt(x) for x >= 0: sqrt(x / SC) * SC = isqrt(x * SC).
FSqrt(x) == ISqrtIter(x * SC, 0, Min(x * SC, 46340))

\* The Taylor series of exp(x), x >= 0: acc + term + term*x/k + ...
RECURSIVE ExpIter(_, _, _, _)
ExpIter(x, term, k, acc) ==
    IF term = 0 THEN acc
    ELSE ExpIter(x, TDiv(term * x, k * SC), k + 1, acc + term)

\* exp(x) for 0 <= x; the argument is halved until the series is short.
RECURSIVE ExpPos(_)
ExpPos(x) ==
    IF x > 2 * SC
    THEN LET h == ExpPos(x \div 2)
         IN  FMul(FMul(h, h), IF x % 2 = 1 THEN SC + 1 ELSE SC)
    ELSE ExpIter(x, SC, 1, 0)

\* np.exp(x).  Below -12 the value rounds to 0; exp(-x) = 1 / exp(x).
FExp(x) ==
    IF x >= 0 THEN ExpPos(x)
    ELSE IF x < -12 * SC THEN 0
    ELSE FDiv(SC, ExpPos(-x))

\* 2 * atanh(y) = 2 * (y + y^3/3 + y^5/5 + ...), |y| <= 1/3.
RECURSIVE AtanhIter(_, _, _, _)
AtanhIter(y2, pow, k, acc) ==
    IF pow = 0 THEN acc
    ELSE AtanhIter(y2, FMul(pow, y2), k + 2, acc + TDiv(pow, k))

\* ln(x) for x >= 1: halve x down to [1, 2] (ln 2 = 0.693), then
\* ln x = 2 atanh((x-1)/(x+1)).
RECURSIVE LnGe1(_)
LnGe1(x) ==
    IF x > 2 * SC THEN 693 + LnGe1(x \div 2)
    ELSE LET y == FDiv(x - SC, x + SC)
         IN  2 * AtanhIter(FMul(y, y), y, 1, 0)

\* np.log(x) for x > 0; ln(x) = -ln(1/x) below 1.
FLn(x) == IF x >= SC THEN LnGe1(x) ELSE -LnGe1(FDiv(SC, x))

\* The standard normal distribution function at 0.0, 0.1, ..., 4.0.
PhiTable ==
    << 500, 540, 579, 618, 655, 691, 726, 758, 788, 816,
       841, 864, 885, 903, 919, 933, 945, 955, 964, 971,
       977, 982, 986, 989, 992, 994, 995, 997, 997, 998,
       999, 999, 999, 1000, 1000, 1000, 1000, 1000, 1000, 1000, 1000 >>

\* Phi(z) for z >= 0: the table, linearly interpolated; 1 from 4.0 on.
NormCdfPos(z) ==
    IF z >= 4 * SC THEN SC
    ELSE LET i == z \div 100
             f == z % 100
         IN  PhiTable[i + 1] + TDiv((PhiTable[i + 2] - PhiTable[i + 1]) * f, 100)

\* scipy.stats.norm.cdf(x): ndtr computes the lower tail from the upper one.
NormCdf(x) == IF x >= 0 THEN NormCdfPos(x) ELSE SC - NormCdfPos(-x)

\* scipy.stats.norm.pdf(x) = exp(-x^2 / 2) / sqrt(2 pi), 1 / sqrt(2 pi) = 0.399.
NormPdf(x) ==
    IF Abs(x) > 6 * SC THEN 0 ELSE FMul(FExp(-(FMul(x, x) \div 2)), 399)

\* ----------------------------------------------------------------------
\* IEEE special values, as numpy's float64 arithmetic yields them: a division
\* by zero gives an infinity or nan with a warning, never an exception.
\* Zero is taken as +0.0.
\* ----------------------------------------------------------------------

PInf == 2 ^ 30

NInf == -PInf

NaN == PInf + 1

IsFinite(x) == x # NaN /\ x # PInf /\ x # NInf

IsInf(x) == x = PInf \/ x = NInf

XNeg(x) == IF x = NaN THEN NaN ELSE -x

XAdd(x, y) ==
    IF x = NaN \/ y = NaN THEN NaN
    ELSE IF IsInf(x) /\ IsInf(y) THEN (IF x = y THEN x ELSE NaN)
    ELSE IF IsInf(x) THEN x
    ELSE IF IsInf(y) THEN y
    ELSE x + y

XSub(x, y) == XAdd(x, XNeg(y))

XMul(x, y) ==
    IF x = NaN \/ y = NaN THEN NaN
    ELSE IF IsInf(x) \/ IsInf(y)
         THEN (IF x = 0 \/ y = 0 THEN NaN
               ELSE IF Sign(x) = Sign(y) THEN PInf ELSE NInf)
    ELSE FMul(x, y)

\* x times the integer n.
XTimes(x, n) ==
    IF x = NaN THEN NaN
    ELSE IF IsInf(x)
         THEN (IF n = 0 THEN NaN ELSE IF Sign(x) = Sign(n) THEN PInf ELSE NInf)
    ELSE x * n

XDiv(x, y) ==
    IF x = NaN \/ y = NaN THEN NaN
    ELSE IF IsInf(x) THEN (IF IsInf(y) THEN NaN
                           ELSE IF y < 0 THEN XNeg(x) ELSE x)
    ELSE IF IsInf(y) THEN 0
    ELSE IF y = 0 THEN (IF x = 0 THEN NaN ELSE IF x > 0 THEN PInf ELSE NInf)
    ELSE FDiv(x, y)

\* np.sqrt: nan (with a warning) below zero.
XSqrt(x) ==
    IF x = NaN \/ x < 0 THEN NaN ELSE IF x = PInf THEN PInf ELSE FSqrt(x)

\* np.log: -inf at zero, nan below.
XLn(x) ==
    IF x = NaN \/ x < 0 THEN NaN
    ELSE IF x = 0 THEN NInf
    ELSE IF x = PInf THEN PInf
    ELSE FLn(x)

XExp(x) ==
    IF x = NaN THEN NaN
    ELSE IF x = PInf THEN PInf
    ELSE IF x = NInf THEN 0
    ELSE FExp(x)

\* norm.cdf and norm.pdf at the special values.
XNormCdf(x) ==
    IF x = NaN THEN NaN
    ELSE IF x = PInf THEN SC
    ELSE IF x = NInf THEN 0
    ELSE NormCdf(x)

XNormPdf(x) ==
    IF x = NaN THEN NaN ELSE IF IsInf(x) THEN 0 ELSE NormPdf(x)

\* ----------------------------------------------------------------------
\* Python values and outcomes of a call
\* ----------------------------------------------------------------------

\* A Python value: its type and, for a number, its fixed-point value.
PyInt(v) == [kind |-> "int", val |-> v]

PyFloat(v) == [kind |-> "float", val |-> v]

PyStr == [kind |-> "str", val |-> 0]

PyNone == [kind |-> "NoneType", val |-> 0]

\* isinstance(val, (int, float))
IsNumber(v) == v.kind \in {"int", "float"}

\* The outcome of a call: a returned number, or a raised exception.
Return(v) == [tag |-> "return", name |-> "", value |-> v]

Raise(exc, name) == [tag |-> exc, name |-> name, value |-> 0]

NotCalled == [tag |-> "none", name |-> "", value |-> 0]

\* ----------------------------------------------------------------------
\* src/src/pricing.py
\* ----------------------------------------------------------------------

\* max(S - K, 0) for a call, max(K - S, 0) for a put.
Intrinsic(S, K, option_type) ==
    IF option_type = "call" THEN Max(S - K, 0) ELSE Max(K - S, 0)

\* The names black_scholes checks, in the order it checks them.
bs_names == << "S", "K", "T", "r", "sigma", "q" >>

\* The loop of lines 17-19: the first argument that is no int or float.
bs_first_bad(args) ==
    LET bad == { i \in 1..Len(args) : ~IsNumber(args[i]) }
    IN  IF bad = {} THEN 0 ELSE CHOOSE i \in bad : \A j \in bad : i <= j

\* Lines 23-28: the expired option.
bs_expired(S, K, option_type) == Intrinsic(S, K, option_type)

\* bs_zero_vol without the discount factor.
bs_zero_vol_undiscounted(S, K, T, r, option_type) == Intrinsic(S, K, option_type)

\* Lines 30-35: zero volatility.
bs_zero_vol(S, K, T, r, option_type) ==
    FMul(FExp(FMul(-r, T)), Intrinsic(S, K, option_type))

\* Line 38
bs_d1(S, K, T, r, sigma, q) ==
    FDiv(FLn(FDiv(S, K)) + FMul(r - q + FMul(SC \div 2, FMul(sigma, sigma)), T),
         FMul(sigma, FSqrt(T)))

\* Line 39
bs_d2(S, K, T, r, sigma, q) == bs_d1(S, K, T, r, sigma, q) - FMul(sigma, FSqrt(T))

\* Line 42
bs_call(S, K, T, r, sigma, q) ==
    FMul(FMul(S, FExp(FMul(-q, T))), NormCdf(bs_d1(S, K, T, r, sigma, q)))
      - FMul(FMul(K, FExp(FMul(-r, T))), NormCdf(bs_d2(S, K, T, r, sigma, q)))

\* bs_put with the sign of d2 lost in the strike term.
bs_put_sign_slip(S, K, T, r, sigma, q) ==
    FMul(FMul(K, FExp(FMul(-r, T))), NormCdf(bs_d2(S, K, T, r, sigma, q)))
      - FMul(FMul(S, FExp(FMul(-q, T))), NormCdf(-bs_d1(S, K, T, r, sigma, q)))

\* Line 44
bs_put(S, K, T, r, sigma, q) ==
    FMul(FMul(K, FExp(FMul(-r, T))), NormCdf(-bs_d2(S, K, T, r, sigma, q)))
      - FMul(FMul(S, FExp(FMul(-q, T))), NormCdf(-bs_d1(S, K, T, r, sigma, q)))

\* Lines 37-46: the BSM formula.
bs_formula(S, K, T, r, sigma, option_type, q) ==
    IF option_type = "call" THEN bs_call(S, K, T, r, sigma, q)
    ELSE bs_put(S, K, T, r, sigma, q)

\* black_scholes with the expiry branch taken before option_type is checked.
black_scholes_expiry_first(S, K, T, r, sigma, option_type, q) ==
    LET bad == bs_first_bad(<< S, K, T, r, sigma, q >>)
    IN  IF bad # 0 THEN Raise("TypeError", bs_names[bad])
        ELSE IF T.val <= 0
        THEN Return(bs_expired(S.val, K.val, option_type))
        ELSE IF option_type \notin {"call", "put"}
        THEN Raise("ValueError", "option_type")
        ELSE IF sigma.val <= 0
        THEN Return(bs_zero_vol(S.val, K.val, T.val, r.val, option_type))
        ELSE Return(bs_formula(S.val, K.val, T.val, r.val, sigma.val,
                               option_type, q.val))

\* black_scholes with the zero-volatility branch taken before the expiry one.
black_scholes_sigma_first(S, K, T, r, sigma, option_type, q) ==
    LET bad == bs_first_bad(<< S, K, T, r, sigma, q >>)
    IN  IF bad # 0 THEN Raise("TypeError", bs_names[bad])
        ELSE IF option_type \notin {"call", "put"}
        THEN Raise("ValueError", "option_type")
        ELSE IF sigma.val <= 0
        THEN Return(bs_zero_vol(S.val, K.val, T.val, r.val, option_type))
        ELSE IF T.val <= 0
        THEN Return(bs_expired(S.val, K.val, option_type))
        ELSE Return(bs_formula(S.val, K.val, T.val, r.val, sigma.val,
                               option_type, q.val))

\* black_scholes(S, K, T, r, sigma, option_type, q): the arguments are Python
\* values, option_type a string.
black_scholes(S, K, T, r, sigma, option_type, q) ==
    LET bad == bs_first_bad(<< S, K, T, r, sigma, q >>)
    IN  IF bad # 0 THEN Raise("TypeError", bs_names[bad])
        ELSE IF option_type \notin {"call", "put"}
        THEN Raise("ValueError", "option_type")
        ELSE IF T.val <= 0
        THEN Return(bs_expired(S.val, K.val, option_type))
        ELSE IF sigma.val <= 0
        THEN Return(bs_zero_vol(S.val, K.val, T.val, r.val, option_type))
        ELSE Return(bs_formula(S.val, K.val, T.val, r.val, sigma.val,
                               option_type, q.val))

\* ----------------------------------------------------------------------
\* src/src/greeks.py
\* ----------------------------------------------------------------------

\* The names GreekCalculator.__init__ checks, in the order it checks them.
gk_names == << "S", "K", "T", "r", "sigma" >>

\* _compute_d1_d2, line 22, on Python numbers S and K # 0: np.log makes the
\* numerator a numpy float, so a zero denominator gives an infinity or nan and
\* no exception; np.sqrt of a negative T is nan; sigma < 0 times sqrt(0) is -0.0.
gk_d1(S, K, T, r, sigma) ==
    LET num == XAdd(XLn(FDiv(S, K)), FMul(r + FMul(SC \div 2, FMul(sigma, sigma)), T))
        den == XMul(sigma, XSqrt(T))
        quot == XDiv(num, den)
    IN  IF den = 0 /\ sigma < 0 THEN XNeg(quot) ELSE quot

\* _compute_d1_d2, line 23.
gk_d2(S, K, T, r, sigma) == XSub(gk_d1(S, K, T, r, sigma), XMul(sigma, XSqrt(T)))

\* A constructed GreekCalculator: its attributes.
GreekObject(S, K, T, r, sigma, option_type) ==
    [ tag |-> "object", name |-> "", S |-> S, K |-> K, T |-> T, r |-> r,
      sigma |-> sigma, option_type |-> option_type,
      d1 |-> gk_d1(S, K, T, r, sigma), d2 |-> gk_d2(S, K, T, r, sigma) ]

\* A constructor that raised: no object.
GreekRaise(exc, name) ==
    [ tag |-> exc, name |-> name, S |-> 0, K |-> 0, T |-> 0, r |-> 0,
      sigma |-> 0, option_type |-> "", d1 |-> 0, d2 |-> 0 ]

NoGreek == GreekRaise("none", "")

\* A constructor with the guards of black_scholes: it refuses T <= 0 and
\* sigma <= 0.
GreekCalculator_guarded(S, K, T, r, sigma, option_type) ==
    LET bad == bs_first_bad(<< S, K, T, r, sigma >>)
    IN  IF bad # 0 THEN GreekRaise("TypeError", gk_names[bad])
        ELSE IF option_type \notin {"call", "put"}
        THEN GreekRaise("ValueError", "option_type")
        ELSE IF T.val <= 0 THEN GreekRaise("ValueError", "T")
        ELSE IF sigma.val <= 0 THEN GreekRaise("ValueError", "sigma")
        ELSE IF K.val = 0 THEN GreekRaise("ZeroDivisionError", "K")
        ELSE GreekObject(S.val, K.val, T.val, r.val, sigma.val, option_type)

\* GreekCalculator.__init__(S, K, T, r, sigma, option_type): the arguments are
\* Python values, option_type a string. S / K of line 22 is Python's division,
\* which raises for K = 0.
GreekCalculator(S, K, T, r, sigma, option_type) ==
    LET bad == bs_first_bad(<< S, K, T, r, sigma >>)
    IN  IF bad # 0 THEN GreekRaise("TypeError", gk_names[bad])
        ELSE IF option_type \notin {"call", "put"}
        THEN GreekRaise("ValueError", "option_type")
        ELSE IF K.val = 0 THEN GreekRaise("ZeroDivisionError", "K")
        ELSE GreekObject(S.val, K.val, T.val, r.val, sigma.val, option_type)

\* delta() with the put branch forgotten.
gk_delta_call_only(self) == XNormCdf(self.d1)

\* delta()
gk_delta(self) ==
    IF self.option_type = "call" THEN XNormCdf(self.d1)
    ELSE XSub(XNormCdf(self.d1), SC)

\* gamma()
gk_gamma(self) ==
    XDiv(XNormPdf(self.d1), XMul(FMul(self.S, self.sigma), XSqrt(self.T)))

\* vega()
gk_vega(self) == XMul(XMul(self.S, XNormPdf(self.d1)), XSqrt(self.T))

\* theta()
gk_theta(self) ==
    LET first_term == XNeg(XDiv(XMul(XMul(self.S, XNormPdf(self.d1)), self.sigma),
                                XTimes(XSqrt(self.T), 2)))
        carry == FMul(FMul(self.r, self.K), FExp(FMul(-self.r, self.T)))
    IN  IF self.option_type = "call"
        THEN XSub(first_term, XMul(carry, XNormCdf(self.d2)))
        ELSE XAdd(first_term, XMul(carry, XNormCdf(XNeg(self.d2))))

\* rho()
gk_rho(self) ==
    LET kt == FMul(FMul(self.K, self.T), FExp(FMul(-self.r, self.T)))
    IN  IF self.option_type = "call"
        THEN XMul(kt, XNormCdf(self.d2))
        ELSE XNeg(XMul(kt, XNormCdf(XNeg(self.d2))))

\* to_dict(): the five Greeks in the order delta, gamma, vega, theta, rho.
gk_to_dict(self) ==
    << gk_delta(self), gk_gamma(self), gk_vega(self), gk_theta(self), gk_rho(self) >>

\* ----------------------------------------------------------------------
\* src/pages/1_thePortfolio.py
\* ----------------------------------------------------------------------

\* A position: the dict the page keeps in st.session_state.portfolio.  expiry
\* is in days from today; strike, implied_volatility and premium are
\* fixed-point numbers, qty a signed integer.
Position(option_type, strike, qty, expiry, iv, premium) ==
    [ option_type |-> option_type, strike |-> strike, qty |-> qty,
      expiry |-> expiry, implied_volatility |-> iv, premium |-> premium ]

\* Lines 10-27: a long call at 100 and a short put at 90, 60 days out.
demo_portfolio ==
    << Position("call", 100 * SC, 1, 60, 250, 5 * SC),
       Position("put", 90 * SC, -1, 60, 300, 4 * SC) >>

\* np.linspace(S_min, S_max, 200) has this many points (line 86).
GridPoints == 200

\* Line 54: the signed quantity.
pf_qty(qty_input, position_type) ==
    IF position_type = "Long" THEN qty_input ELSE -qty_input

\* Lines 62-69 with an equal position already held left out.
pf_append_unique(portfolio, option) ==
    IF \E i \in 1..Len(portfolio) : portfolio[i] = option
    THEN portfolio ELSE Append(portfolio, option)

\* Lines 62-69: st.session_state.portfolio.append({...})
pf_append(portfolio, option) == Append(portfolio, option)

\* The smallest and the largest strike of a non-empty portfolio.
pf_strikes_min(portfolio) ==
    LET ks == { portfolio[i].strike : i \in 1..Len(portfolio) }
    IN  CHOOSE k \in ks : \A j \in ks : k <= j

pf_strikes_max(portfolio) ==
    LET ks == { portfolio[i].strike : i \in 1..Len(portfolio) }
    IN  CHOOSE k \in ks : \A j \in ks : k >= j

\* Lines 84-86: S_range[i], i = 1..200, of np.linspace(S_min, S_max, 200) with
\* S_min = max(1, 0.6 * min strike) and S_max = 1.4 * max strike.
pf_S_range(portfolio) ==
    LET S_min == Max(SC, FMul(pf_strikes_min(portfolio), 600))
        S_max == FMul(pf_strikes_max(portfolio), 1400)
    IN  [ i \in 1..GridPoints |->
            S_min + TDiv((i - 1) * (S_max - S_min), GridPoints - 1) ]

\* Line 107 with the premium charged on long positions only.
pf_position_payoff_long_premium(option, S) ==
    option.qty * Intrinsic(S, option.strike, option.option_type)
      - Max(option.qty, 0) * option.premium

\* Lines 106-107: what one position adds to total_payoff at the price S.
pf_position_payoff(option, S) ==
    option.qty * (Intrinsic(S, option.strike, option.option_type) - option.premium)

\* Lines 93-107: total_payoff at one price, accumulated position by position.
RECURSIVE pf_payoff_at(_, _)
pf_payoff_at(portfolio, S) ==
    IF portfolio = << >> THEN 0
    ELSE pf_payoff_at(SubSeq(portfolio, 1, Len(portfolio) - 1), S)
           + pf_position_payoff(portfolio[Len(portfolio)], S)

\* Lines 87 and 96-105: what the loop hands to GreekCalculator for a position
\* at every grid price: the strike, r = 0.05, the stored implied_volatility as
\* sigma, and the option type. (T is the time to expiry floored at 1e-6 years,
\* below the resolution of the fixed-point numbers; the Greek curves drawn from
\* these calls are not part of the state.)
pf_greek_args(option) ==
    [ option_type |-> option.option_type, K |-> option.strike, r |-> 50,
      sigma |-> option.implied_volatility ]

\* What the page shows nothing of: st.info when the portfolio is empty.
NoView ==
    [ shown |-> FALSE, S_range |-> << >>, total_payoff |-> << >>, greek_calls |-> << >> ]

\* Lines 75-112: the price grid and the payoff curve of the page, and the
\* arguments of its GreekCalculator calls, position by position.
pf_evaluate(portfolio) ==
    IF portfolio = << >> THEN NoView
    ELSE LET grid == pf_S_range(portfolio)
         IN  [ shown |-> TRUE, S_range |-> grid,
               total_payoff |-> [ i \in 1..GridPoints |-> pf_payoff_at(portfolio, grid[i]) ],
               greek_calls |-> [ i \in 1..Len(portfolio) |-> pf_greek_args(portfolio[i]) ] ]

\* ----------------------------------------------------------------------
\* src/pages/3_theSimulation.py
\* ----------------------------------------------------------------------

\* The characters str.isdigit accepts (the ASCII ones).
Digits == << "0", "1", "2", "3", "4", "5", "6", "7", "8", "9" >>

IsDigit(c) == \E d \in 1..Len(Digits) : Digits[d] = c

DigitValue(c) == (CHOOSE d \in 1..Len(Digits) : Digits[d] = c) - 1

\* T_input.replace('.', '', 1): the text without its first '.'.
sim_drop_first_dot(text) ==
    LET dots == { i \in 1..Len(text) : text[i] = "." }
    IN  IF dots = {} THEN text
        ELSE LET d == CHOOSE i \in dots : \A j \in dots : i <= j
             IN  SubSeq(text, 1, d - 1) \o SubSeq(text, d + 1, Len(text))

\* str.isdigit(): not empty and digits only.
sim_isdigit(text) == text # << >> /\ \A i \in 1..Len(text) : IsDigit(text[i])

\* The number a string of digits spells.
RECURSIVE DigitsValue(_)
DigitsValue(ds) ==
    IF ds = << >> THEN 0
    ELSE 10 * DigitsValue(SubSeq(ds, 1, Len(ds) - 1)) + DigitValue(ds[Len(ds)])

\* float(text) of digits with at most one '.': the integer part plus the
\* first three decimals.
sim_float(text) ==
    LET dots == { i \in 1..Len(text) : text[i] = "." }
        d == IF dots = {} THEN Len(text) + 1 ELSE CHOOSE i \in dots : TRUE
        whole == SubSeq(text, 1, d - 1)
        frac == SubSeq(text, d + 1, Len(text))
        frac3 == SubSeq(frac \o << "0", "0", "0" >>, 1, 3)
    IN  DigitsValue(whole) * SC + DigitsValue(frac3)

\* Line 36: T = float(T_input) if T_input.replace('.', '', 1).isdigit() else 1.0
sim_parse_T(text) ==
    IF sim_isdigit(sim_drop_first_dot(text)) THEN sim_float(text) ELSE SC

\* The global generator of np.random, one step on (a linear congruential
\* stand-in for the Mersenne twister: the next state is a function of the last).
rng_next(state) == (state * 75 + 74) % 65537

\* The state after n draws.
RECURSIVE rng_after(_, _)
rng_after(state, n) == IF n = 0 THEN state ELSE rng_after(rng_next(state), n - 1)

\* The standard normal variate a state yields: one of the eight octile medians.
rng_normal(state) ==
    << -1534, -887, -489, -157, 157, 489, 887, 1534 >>[(state % 8) + 1]

\* Line 54: t_vals = np.linspace(0, T, N + 1), entries 1..N+1.
sim_t_vals(T, N) == [ i \in 1..(N + 1) |-> TDiv((i - 1) * T, N) ]

\* Line 56: dW = np.random.normal(0, np.sqrt(dt), size=(M, N)), filled row by
\* row from the generator's stream.
sim_dW(rng, dt, M, N) ==
    [ k \in 1..M |-> [ j \in 1..N |->
        FMul(FSqrt(dt), rng_normal(rng_after(rng, (k - 1) * N + j))) ] ]

\* Lines 57-58: W = cumsum(dW) with a leading 0, entries 1..N+1 of one path.
RECURSIVE sim_W(_, _)
sim_W(dWk, i) == IF i = 1 THEN 0 ELSE sim_W(dWk, i - 1) + dWk[i - 1]

\* Line 59: S_paths = S0 * exp((mu - 0.5 sigma^2) t_vals + sigma W)
sim_S_paths(S0, mu, sigma, t_vals, dW, M, N) ==
    [ k \in 1..M |-> [ i \in 1..(N + 1) |->
        FMul(S0, FExp(FMul(mu - FMul(SC \div 2, FMul(sigma, sigma)), t_vals[i])
                        + FMul(sigma, sim_W(dW[k], i)))) ] ]

\* Lines 47-49: bs_delta, on a numpy price S and a remaining time T > 0; the
\* division of line 48 is numpy's, so sigma = 0 gives an infinite d1, or nan
\* where the numerator is 0 too.
bs_delta(S, K, T, r, sigma, option_type) ==
    LET d1 == XDiv(XAdd(XLn(XDiv(S, K)),
                        FMul(r + FMul(SC \div 2, FMul(sigma, sigma)), T)),
                   FMul(sigma, FSqrt(T)))
    IN  IF option_type = "call" THEN XNormCdf(d1) ELSE XNeg(XNormCdf(XNeg(d1)))

\* Lines 66-69: the books of one path before its first step.
sim_books0 == [ cash_account |-> 0, delta_prev |-> 0, deltas |-> << >>, stock_track |-> << >> ]

\* A variant of the hedging loop that lets the cash account accrue before it
\* pays for the trade.
RECURSIVE sim_walk_accrue_first(_, _, _, _)
sim_walk_accrue_first(in, path, i, books) ==
    LET S_t == path[i + 1]
        tau == in.T - i * in.dt
    IN  IF i >= in.N \/ tau <= 0 THEN books
        ELSE LET delta == bs_delta(S_t, in.strike, tau, in.r, in.sigma, in.option_type)
                 d_delta == XSub(delta, books.delta_prev)
                 cash == XSub(XMul(books.cash_account, FExp(FMul(in.r, in.dt))),
                              XMul(d_delta, S_t))
             IN  sim_walk_accrue_first(in, path, i + 1,
                          [ cash_account |-> cash, delta_prev |-> delta,
                            deltas |-> Append(books.deltas, delta),
                            stock_track |-> Append(books.stock_track, S_t) ])

\* A variant of the hedging loop that stops one step before expiry.
RECURSIVE sim_walk_stop_at_dt(_, _, _, _)
sim_walk_stop_at_dt(in, path, i, books) ==
    LET S_t == path[i + 1]
        tau == in.T - i * in.dt
    IN  IF i >= in.N \/ tau <= in.dt THEN books
        ELSE LET delta == bs_delta(S_t, in.strike, tau, in.r, in.sigma, in.option_type)
                 d_delta == XSub(delta, books.delta_prev)
                 cash == XMul(XSub(books.cash_account, XMul(d_delta, S_t)),
                              FExp(FMul(in.r, in.dt)))
             IN  sim_walk_stop_at_dt(in, path, i + 1,
                          [ cash_account |-> cash, delta_prev |-> delta,
                            deltas |-> Append(books.deltas, delta),
                            stock_track |-> Append(books.stock_track, S_t) ])

\* Lines 71-83: the steps i, i+1, ..., N-1 of one path, stopping at tau <= 0.
RECURSIVE sim_walk(_, _, _, _)
sim_walk(in, path, i, books) ==
    LET S_t == path[i + 1]
        tau == in.T - i * in.dt
    IN  IF i >= in.N \/ tau <= 0 THEN books
        ELSE LET delta == bs_delta(S_t, in.strike, tau, in.r, in.sigma, in.option_type)
                 d_delta == XSub(delta, books.delta_prev)
                 cash == XMul(XSub(books.cash_account, XMul(d_delta, S_t)),
                              FExp(FMul(in.r, in.dt)))
             IN  sim_walk(in, path, i + 1,
                          [ cash_account |-> cash, delta_prev |-> delta,
                            deltas |-> Append(books.deltas, delta),
                            stock_track |-> Append(books.stock_track, S_t) ])

\* Lines 85-88: the PnL of one path from its final books.
sim_pnl(in, path, books) ==
    LET S_T == path[in.N + 1]
        payoff == Intrinsic(S_T, in.strike, in.option_type)
        hedge_value == XAdd(XMul(books.delta_prev, S_T), books.cash_account)
    IN  XSub(XTimes(XSub(hedge_value, payoff), in.qty), in.premium * in.qty)

\* Lines 19-43 and 53: the values the run works with; r is entered in percent.
sim_inputs(S0, mu, sigma, option_type, strike, premium, T_input, qty, r_pct, N, M) ==
    LET T == sim_parse_T(T_input)
    IN  [ S0 |-> S0, mu |-> mu, sigma |-> sigma, option_type |-> option_type,
          strike |-> strike, premium |-> premium, T |-> T, qty |-> qty,
          r |-> TDiv(r_pct, 100), N |-> N, M |-> M, dt |-> TDiv(T, N) ]

\* Lines 54-59: the M price paths of a run, N + 1 prices each.
sim_paths(in, rng) ==
    sim_S_paths(in.S0, in.mu, in.sigma, sim_t_vals(in.T, in.N),
                sim_dW(rng, in.dt, in.M, in.N), in.M, in.N)

\* Lines 61-99: what pressing 'Run Simulation' stores in st.session_state,
\* from the price paths drawn.
sim_run(in, S_paths) ==
    LET t_vals == sim_t_vals(in.T, in.N)
        books == [ k \in 1..in.M |-> sim_walk(in, S_paths[k], 0, sim_books0) ]
    IN  [ sim_ran |-> TRUE,
          t_vals |-> t_vals,
          stock_paths |-> [ k \in 1..in.M |-> books[k].stock_track ],
          delta_paths |-> [ k \in 1..in.M |-> books[k].deltas ],
          pnl_paths |-> [ k \in 1..in.M |-> sim_pnl(in, S_paths[k], books[k]) ] ]

\* st.session_state before any run of the simulation.
NoSimulation ==
    [ sim_ran |-> FALSE, t_vals |-> << >>, stock_paths |-> << >>,
      delta_paths |-> << >>, pnl_paths |-> << >> ]

\* ----------------------------------------------------------------------
\* src/src/utils.py and src/theOptionChain.py
\* ----------------------------------------------------------------------

\* A date is its day number; str(date) is the key of that day, and a label
\* kept as it stands is the key of its own text.
DateKey(day) == [ kind |-> "date", day |-> day, text |-> << >> ]

TextKey(label) == [ kind |-> "text", day |-> 0, text |-> label ]

\* utils.py line 60: label.startswith("today + ")
oc_startswith_today(label) ==
    LET prefix == << "t", "o", "d", "a", "y", " ", "+", " " >>
    IN  Len(label) >= Len(prefix) /\ SubSeq(label, 1, Len(prefix)) = prefix

\* str.strip(): the text without its leading and trailing blanks.
RECURSIVE oc_strip(_)
oc_strip(text) ==
    IF text = << >> THEN text
    ELSE IF Head(text) = " " THEN oc_strip(Tail(text))
    ELSE IF text[Len(text)] = " " THEN oc_strip(SubSeq(text, 1, Len(text) - 1))
    ELSE text

\* label.split("+")[1]: the text between the first '+' and the next one.
oc_split_plus_1(label) ==
    LET plus == { i \in 1..Len(label) : label[i] = "+" }
        first == CHOOSE i \in plus : \A j \in plus : i <= j
        later == { i \in plus : i > first }
        stop == IF later = {} THEN Len(label) + 1
                ELSE CHOOSE i \in later : \A j \in later : i <= j
    IN  SubSeq(label, first + 1, stop - 1)

\* utils.py lines 60-65: the key a label of the dataset is stored under.
oc_date_key(label, reference_date) ==
    IF oc_startswith_today(label)
    THEN DateKey(reference_date + DigitsValue(oc_strip(oc_split_plus_1(label))))
    ELSE TextKey(label)

\* A dict assignment d[key] = value on a list of entries in insertion order:
\* a key already present keeps its place and takes the new value.
oc_dict_set(entries, entry) ==
    IF \E i \in 1..Len(entries) : entries[i].key = entry.key
    THEN [ i \in 1..Len(entries) |->
             IF entries[i].key = entry.key THEN entry ELSE entries[i] ]
    ELSE Append(entries, entry)

\* utils.py lines 59-83: the loop of OptionChain.__init__ over the first n
\* labels of option_data.
RECURSIVE oc_build(_, _, _)
oc_build(option_data, reference_date, n) ==
    IF n = 0 THEN << >>
    ELSE oc_dict_set(oc_build(option_data, reference_date, n - 1),
                     [ key |-> oc_date_key(option_data[n].label, reference_date),
                       calls |-> option_data[n].calls,
                       puts |-> option_data[n].puts ])

\* No reference date passed.
NoDate == -1

\* utils.py lines 55-83: OptionChain(option_data, reference_date); line 56 puts
\* today's date in the place of a missing reference date.
OptionChain(option_data, reference_date, today) ==
    LET ref == IF reference_date = NoDate THEN today ELSE reference_date
    IN  [ callable |-> TRUE, reference_date |-> ref,
          expiries |-> oc_build(option_data, ref, Len(option_data)) ]

\* utils.py lines 89-90: OptionChain.all_expiries()
oc_all_expiries(chain) == [ i \in 1..Len(chain.expiries) |-> chain.expiries[i].key ]

\* utils.py lines 96-100: Ticker(data), whose chain is built without a
\* reference date.
Ticker(data, today) ==
    [ source |-> "static", stock_price |-> data.stock_price,
      option_chain |-> OptionChain(data.option_chain, NoDate, today) ]

\* utils.py lines 107-110: load_demo_option(path, reference_date) on a file
\* holding data; the reference date is not used.
load_demo_option(data, reference_date, today) == Ticker(data, today)

\* No ticker fetched.
NoTicker ==
    [ source |-> "none", stock_price |-> 0,
      option_chain |-> [ callable |-> FALSE, reference_date |-> NoDate, expiries |-> << >> ] ]

\* What a tier of get_ticker_data hands back: the tuple it returns, or a failure.
Fetched(ticker, S, all_expiries) ==
    [ ok |-> TRUE, ticker |-> ticker, S |-> S, all_expiries |-> all_expiries ]

FetchFailed == [ ok |-> FALSE, ticker |-> NoTicker, S |-> 0, all_expiries |-> << >> ]

\* The ticker object of the yfinance library: option_chain is a method that
\* answers for the expiries the library listed.
yf_ticker(resp) ==
    [ source |-> "primary", stock_price |-> resp.close,
      option_chain |->
        [ callable |-> TRUE, reference_date |-> NoDate,
          expiries |-> [ i \in 1..Len(resp.expiries) |->
                           [ key |-> resp.expiries[i], calls |-> resp.calls,
                             puts |-> resp.puts ] ] ] ]

\* A variant of the first tier that also wants a second expiry.
yf_fetch_wanting_two(resp) ==
    IF resp.raises \/ resp.history_empty \/ Len(resp.expiries) < 2
    THEN FetchFailed
    ELSE Fetched(yf_ticker(resp), resp.close, resp.expiries)

\* utils.py lines 12-23: the yfinance tier on the library's response.
yf_fetch(resp) ==
    IF resp.raises \/ resp.history_empty \/ resp.expiries = << >>
    THEN FetchFailed
    ELSE Fetched(yf_ticker(resp), resp.close, resp.expiries)

\* utils.py lines 37-41: DummyTicker, whose option_chain is an object with an
\* all_expiries attribute and no __call__.
DummyTicker(data) ==
    [ source |-> "secondary", stock_price |-> data.price,
      option_chain |-> [ callable |-> FALSE, reference_date |-> NoDate, expiries |-> << >> ] ]

\* utils.py lines 26-47: the API tier on the response of requests.get.
api_fetch(resp) ==
    IF resp.raises \/ resp.status_code # 200 \/ ~resp.has_price \/ ~resp.has_expires
    THEN FetchFailed
    ELSE Fetched(DummyTicker(resp), resp.price, resp.expires)

\* utils.py lines 85-87 and theOptionChain.py line 77: ticker.option_chain(expiry)
chain_lookup(ticker, expiry) ==
    LET chain == ticker.option_chain
        hits == { i \in 1..Len(chain.expiries) : chain.expiries[i].key = expiry }
    IN  IF ~chain.callable THEN Raise("TypeError", "option_chain")
        ELSE IF hits = {} THEN Raise("KeyError", "expiry")
        ELSE LET e == chain.expiries[CHOOSE i \in hits : TRUE]
             IN  Return([ calls |-> e.calls, puts |-> e.puts ])

\* theOptionChain.py lines 66-70: the expiries selected by default.
default_expiries(all_expiries) == SubSeq(all_expiries, 1, Min(2, Len(all_expiries)))

\* theOptionChain.py lines 72-88: the chains looked up for the selected
\* expiries, in order, up to the first lookup that raises.
RECURSIVE page_lookups(_, _, _)
page_lookups(ticker, selected, n) ==
    IF n = 0 THEN << >>
    ELSE LET before == page_lookups(ticker, selected, n - 1)
         IN  IF before # << >> /\ before[Len(before)].tag # "return" THEN before
             ELSE Append(before, chain_lookup(ticker, selected[n]))

\* ----------------------------------------------------------------------
\* State
\* ----------------------------------------------------------------------

VARIABLES
    bs_in,      \* the arguments of a call of black_scholes
    bs_out,     \* its outcome, NotCalled before the call
    gk_in,      \* the arguments of a construction of GreekCalculator
    gk,         \* the constructed object (or the exception raised), NoGreek before
    gk_out,     \* the accessor called last on it, with its result
    pf_loaded,  \* "portfolio" is a key of st.session_state
    portfolio,  \* st.session_state.portfolio
    pf_event,   \* what triggered the last run of the portfolio page
    pf_view,    \* the price grid and payoff curve the last run drew
    rng,        \* the state of np.random's global generator
    sim,        \* the simulation's keys of st.session_state
    sim_log,    \* history: the inputs and the PnL of every run so far
    ch_env,     \* what the network, the clock and the dataset file hold
    ch_pc,      \* where the run of the option-chain page (or the call) stands
    ch_contacted, \* history: the data sources asked so far, in order
    ch_page     \* the page's ticker, S, all_expiries and the chains looked up

vars == << bs_in, bs_out, gk_in, gk, gk_out, pf_loaded, portfolio, pf_event, pf_view,
           rng, sim, sim_log, ch_env, ch_pc, ch_contacted, ch_page >>

ch_vars == << ch_env, ch_pc, ch_contacted, ch_page >>

sim_vars == << rng, sim, sim_log >>

pf_vars == << pf_loaded, portfolio, pf_event, pf_view >>

bs_vars == << bs_in, bs_out >>

gk_vars == << gk_in, gk, gk_out >>

\* The pages and functions a specification does not exercise stay idle.
BsIdle == bs_in = << >> /\ bs_out = NotCalled

\* No accessor called yet.
NoAccess == [name |-> "", value |-> 0]

GkIdle == gk_in = << >> /\ gk = NoGreek /\ gk_out = NoAccess

PfIdle ==
    /\ pf_loaded = FALSE /\ portfolio = << >>
    /\ pf_event = [kind |-> "none"] /\ pf_view = NoView

SimIdle == rng = 0 /\ sim = NoSimulation /\ sim_log = << >>

\* What the option-chain page holds before its fetch.
NoPage == [ ticker |-> NoTicker, S |-> 0, all_expiries |-> << >>, lookups |-> << >> ]

ChIdle == ch_env = << >> /\ ch_pc = "idle" /\ ch_contacted = << >> /\ ch_page = NoPage

\* ----------------------------------------------------------------------
\* Calls of black_scholes
\* ----------------------------------------------------------------------

\* Spot and strike: PricingInputs has S > 0 and K > 0.
SpotValues == { PyFloat(80 * SC), PyFloat(100 * SC), PyFloat(120 * SC) }

StrikeValues == { PyFloat(100 * SC), PyInt(105 * SC) }

\* Time to maturity in years, expired and zero included; the calculator page
\* passes an int when the unit is years.
TimeValues == { PyFloat(-SC), PyInt(0), PyFloat(SC \div 2), PyInt(SC), PyInt(2 * SC) }

\* Rates of either sign.
RateValues == { PyFloat(-50), PyInt(0), PyFloat(50) }

\* Volatilities, negative and zero included.
SigmaValues == { PyFloat(-200), PyInt(0), PyFloat(200), PyFloat(400) }

DividendValues == { PyInt(0), PyFloat(30) }

OptionTypes == { "call", "put", "straddle" }

\* Which arguments are passed as a value that is no number.
BadArgSets == { {}, {"S"}, {"K"}, {"T"}, {"r"}, {"sigma"}, {"q"}, {"T", "sigma"}, {"K", "q"} }

NonNumbers == { PyStr, PyNone }

BsInit ==
    /\ \E S \in SpotValues, K \in StrikeValues, T \in TimeValues, r \in RateValues,
          sigma \in SigmaValues, q \in DividendValues, ot \in OptionTypes,
          bad \in BadArgSets, junk \in NonNumbers :
            /\ bad = {} => junk = PyStr
            /\ bs_in = [ S |-> IF "S" \in bad THEN junk ELSE S,
                         K |-> IF "K" \in bad THEN junk ELSE K,
                         T |-> IF "T" \in bad THEN junk ELSE T,
                         r |-> IF "r" \in bad THEN junk ELSE r,
                         sigma |-> IF "sigma" \in bad THEN junk ELSE sigma,
                         q |-> IF "q" \in bad THEN junk ELSE q,
                         option_type |-> ot ]
    /\ bs_out = NotCalled
    /\ GkIdle /\ PfIdle /\ SimIdle /\ ChIdle

\* black_scholes(S, K, T, r, sigma, option_type, q) is called.
BlackScholes ==
    /\ bs_out = NotCalled
    /\ bs_out' = black_scholes(bs_in.S, bs_in.K, bs_in.T, bs_in.r, bs_in.sigma,
                               bs_in.option_type, bs_in.q)
    /\ UNCHANGED << bs_in, gk_vars, pf_vars, sim_vars, ch_vars >>

BsNext == BlackScholes

SpecPricing == BsInit /\ [][BsNext]_vars

\* ----------------------------------------------------------------------
\* Claims about black_scholes (checked under SpecPricing)
\* ----------------------------------------------------------------------

BsArgs == << bs_in.S, bs_in.K, bs_in.T, bs_in.r, bs_in.sigma, bs_in.q >>

BsAllNumbers == \A i \in 1..Len(BsArgs) : IsNumber(BsArgs[i])

BsCalled == bs_out # NotCalled

BsValid == BsAllNumbers /\ bs_in.option_type \in {"call", "put"}

\* exp(-rT) * x, as the claims write the discounted value.
BsDiscounted(x) == FMul(FExp(FMul(-bs_in.r.val, bs_in.T.val)), x)

\* C1: black_scholes validates before computing anything: a non-numeric S, K,
\* T, r, sigma or q raises TypeError; otherwise an option_type that is neither
\* 'call' nor 'put' raises ValueError, also when T <= 0 or sigma <= 0; a price is
\* returned in neither case, and a price is returned only for valid arguments.
C1_ValidationFirst ==
    BsCalled =>
        /\ ~BsAllNumbers => bs_out.tag = "TypeError"
        /\ (BsAllNumbers /\ bs_in.option_type \notin {"call", "put"})
              => bs_out.tag = "ValueError"
        /\ bs_out.tag = "return" <=> BsValid

\* C1's case: an invalid option_type with T <= 0 raised ValueError.
C1_Witness ==
    /\ BsCalled /\ BsAllNumbers
    /\ bs_in.option_type = "straddle"
    /\ bs_in.T.val <= 0
    /\ bs_out.tag = "ValueError"

\* C2: for valid arguments the result is chosen by this precedence: T <= 0
\* gives the undiscounted intrinsic value whatever sigma, r and q are; otherwise
\* sigma <= 0 gives the intrinsic value times exp(-rT); only T > 0 and sigma > 0
\* gives the BSM formula.
C2_Precedence ==
    (BsCalled /\ BsValid) =>
        LET S == bs_in.S.val
            K == bs_in.K.val
            iv == IF bs_in.option_type = "call" THEN Max(S - K, 0) ELSE Max(K - S, 0)
        IN  /\ bs_out.tag = "return"
            /\ bs_in.T.val <= 0 => bs_out.value = iv
            /\ (bs_in.T.val > 0 /\ bs_in.sigma.val <= 0)
                  => bs_out.value = BsDiscounted(iv)
            /\ (bs_in.T.val > 0 /\ bs_in.sigma.val > 0)
                  => bs_out.value =
                        bs_formula(S, K, bs_in.T.val, bs_in.r.val, bs_in.sigma.val,
                                   bs_in.option_type, bs_in.q.val)

\* C2's case: expired and without volatility at once, in the money, at a rate
\* whose discount factor is not 1: the undiscounted intrinsic value is returned.
C2_Witness ==
    /\ BsCalled /\ BsValid
    /\ bs_in.T.val < 0 /\ bs_in.sigma.val <= 0 /\ bs_in.r.val # 0
    /\ bs_out.value > 0
    /\ bs_out.value # BsDiscounted(bs_out.value)
    /\ bs_out.value = Intrinsic(bs_in.S.val, bs_in.K.val, bs_in.option_type)

\* C3 as stated: for every numeric S, K, T and r (T <= 0 included),
\* price(S, K, T, r, 0, 'call') = exp(-rT) * max(S - K, 0).
C3_ZeroVolAnyT ==
    (BsCalled /\ BsValid /\ bs_in.option_type = "call" /\ bs_in.sigma.val = 0)
        => /\ bs_out.tag = "return"
           /\ bs_out.value = BsDiscounted(Max(bs_in.S.val - bs_in.K.val, 0))

\* C3, amended: with sigma = 0, price(S, K, T, r, 0, 'call') is
\* exp(-rT) * max(S - K, 0) for T >= 0 and the undiscounted max(S - K, 0) for
\* T < 0.
C3_ZeroVolUnexpired ==
    (BsCalled /\ BsValid /\ bs_in.option_type = "call" /\ bs_in.sigma.val = 0)
        => /\ bs_out.tag = "return"
           /\ bs_in.T.val >= 0
                 => bs_out.value = BsDiscounted(Max(bs_in.S.val - bs_in.K.val, 0))
           /\ bs_in.T.val < 0
                 => bs_out.value = Max(bs_in.S.val - bs_in.K.val, 0)

\* C3's case: a call priced with sigma = 0 and T > 0, in the money, whose
\* discount factor is not 1.
C3_Witness ==
    /\ BsCalled /\ BsValid
    /\ bs_in.option_type = "call" /\ bs_in.sigma.val = 0
    /\ bs_in.T.val > 0 /\ bs_in.r.val # 0
    /\ bs_out.value > 0
    /\ bs_out.value # bs_in.S.val - bs_in.K.val

\* The price of the opposite option type at the arguments of the call made.
BsPrice(option_type) ==
    IF bs_in.option_type = option_type THEN bs_out.value
    ELSE black_scholes(bs_in.S, bs_in.K, bs_in.T, bs_in.r, bs_in.sigma,
                       option_type, bs_in.q).value

\* S * exp(-qT) - K * exp(-rT)
BsForward ==
    FMul(bs_in.S.val, FExp(FMul(-bs_in.q.val, bs_in.T.val)))
      - FMul(bs_in.K.val, FExp(FMul(-bs_in.r.val, bs_in.T.val)))

\* C4: put-call parity: for valid S, K, T > 0, r, sigma > 0 and q, the call
\* price minus the put price is S * exp(-qT) - K * exp(-rT), up to the rounding
\* of the four products that make the two prices (two units in the last place).
C4_PutCallParity ==
    (BsCalled /\ BsValid /\ bs_in.T.val > 0 /\ bs_in.sigma.val > 0)
        => Abs((BsPrice("call") - BsPrice("put")) - BsForward) <= 2

\* C4's case: a put priced by the BSM formula, with dividends, whose call
\* counterpart differs from it.
C4_Witness ==
    /\ BsCalled /\ BsValid
    /\ bs_in.T.val > 0 /\ bs_in.sigma.val > 0 /\ bs_in.q.val > 0
    /\ bs_in.option_type = "put"
    /\ bs_out.value > 0
    /\ BsPrice("call") # BsPrice("put")

\* ----------------------------------------------------------------------
\* Constructions of GreekCalculator and calls of its accessors
\* ----------------------------------------------------------------------

GkBadArgSets == { bad \in BadArgSets : "q" \notin bad }

GkInit ==
    /\ \E S \in SpotValues, K \in StrikeValues, T \in TimeValues, r \in RateValues,
          sigma \in SigmaValues, ot \in OptionTypes, bad \in GkBadArgSets :
            gk_in = [ S |-> IF "S" \in bad THEN PyStr ELSE S,
                      K |-> IF "K" \in bad THEN PyStr ELSE K,
                      T |-> IF "T" \in bad THEN PyStr ELSE T,
                      r |-> IF "r" \in bad THEN PyStr ELSE r,
                      sigma |-> IF "sigma" \in bad THEN PyStr ELSE sigma,
                      option_type |-> ot ]
    /\ gk = NoGreek
    /\ gk_out = NoAccess
    /\ BsIdle /\ PfIdle /\ SimIdle /\ ChIdle

\* GreekCalculator(S, K, T, r, sigma, option_type)
GkConstruct ==
    /\ gk = NoGreek
    /\ gk' = GreekCalculator(gk_in.S, gk_in.K, gk_in.T, gk_in.r, gk_in.sigma,
                             gk_in.option_type)
    /\ UNCHANGED << gk_in, gk_out, bs_vars, pf_vars, sim_vars, ch_vars >>

\* An accessor is called on the constructed object; the object is not changed.
GkAccess(name, value) ==
    /\ gk.tag = "object"
    /\ gk_out' = [name |-> name, value |-> value]
    /\ UNCHANGED << gk_in, gk, bs_vars, pf_vars, sim_vars, ch_vars >>

GkDelta == GkAccess("delta", gk_delta(gk))

GkGamma == GkAccess("gamma", gk_gamma(gk))

GkVega == GkAccess("vega", gk_vega(gk))

GkTheta == GkAccess("theta", gk_theta(gk))

GkRho == GkAccess("rho", gk_rho(gk))

GkNext == GkConstruct \/ GkDelta \/ GkGamma \/ GkVega \/ GkTheta \/ GkRho

SpecGreeks == GkInit /\ [][GkNext]_vars

\* ----------------------------------------------------------------------
\* Claims about GreekCalculator (checked under SpecGreeks)
\* ----------------------------------------------------------------------

\* The arguments are numbers with S > 0, K > 0, T > 0 and sigma > 0.
GkValidInputs ==
    /\ gk.tag = "object"
    /\ gk.S > 0 /\ gk.K > 0 /\ gk.T > 0 /\ gk.sigma > 0

\* C5: delta bounds: for valid inputs (S > 0, K > 0, T > 0, sigma > 0, r of
\* either sign) delta() of a call lies in [0, 1] and delta() of a put in [-1, 0].
C5_DeltaBounds ==
    (GkValidInputs /\ gk_out.name = "delta") =>
            IF gk.option_type = "call"
            THEN 0 <= gk_out.value /\ gk_out.value <= SC
            ELSE -SC <= gk_out.value /\ gk_out.value <= 0

\* C5's case: delta() was called on a put, at a negative rate, and is strictly
\* inside its interval.
C5_Witness ==
    /\ GkValidInputs
    /\ gk.option_type = "put" /\ gk.r < 0
    /\ gk_out.name = "delta"
    /\ -SC < gk_out.value /\ gk_out.value < 0

\* What black_scholes does with the arguments of the construction (q = 0).
GkBlackScholes ==
    black_scholes(gk_in.S, gk_in.K, gk_in.T, gk_in.r, gk_in.sigma, gk_in.option_type,
                  PyInt(0))

\* The five numeric arguments of the construction are all int or float.
GkAllNumbers ==
    \A name \in { "S", "K", "T", "r", "sigma" } : gk_in[name].kind \in { "int", "float" }

\* C17: the constructor raises TypeError exactly when one of S, K, T, r, sigma
\* is no int or float, otherwise ValueError exactly when option_type is not
\* 'call' or 'put', as black_scholes does for the same arguments; for numbers
\* with S > 0, K > 0 and T <= 0 or sigma <= 0 it raises nothing and builds the
\* object (d1 is not a finite number when T <= 0 or sigma = 0), whereas
\* black_scholes returns a finite number: the intrinsic value for T <= 0, the
\* discounted intrinsic value for sigma <= 0 < T.
C17_NoDegenerateGuard ==
    gk # NoGreek =>
        LET priced == GkBlackScholes
            intrinsic == Intrinsic(gk_in.S.val, gk_in.K.val, gk_in.option_type)
        IN  /\ (gk.tag = "TypeError") = ~GkAllNumbers
            /\ (gk.tag = "ValueError")
                 = (GkAllNumbers /\ gk_in.option_type \notin { "call", "put" })
            /\ gk.tag \in { "TypeError", "ValueError" }
                 => (priced.tag = gk.tag /\ priced.name = gk.name)
            /\ (GkAllNumbers /\ gk_in.option_type \in { "call", "put" }
                  /\ gk_in.S.val > 0 /\ gk_in.K.val > 0
                  /\ (gk_in.T.val <= 0 \/ gk_in.sigma.val <= 0))
                 => /\ gk.tag = "object"
                    /\ (gk.T <= 0 \/ gk.sigma = 0) => ~IsFinite(gk.d1)
                    /\ priced.tag = "return"
                    /\ IsFinite(priced.value)
                    /\ priced.value
                         = IF gk_in.T.val <= 0 THEN intrinsic
                           ELSE FMul(FExp(FMul(-gk_in.r.val, gk_in.T.val)), intrinsic)

\* An object built at T = 0 for a call in the money: d1 is +inf and delta()
\* was read from it, while black_scholes prices the same arguments at S - K.
C17_Witness ==
    /\ gk.tag = "object" /\ gk.option_type = "call"
    /\ gk.T = 0 /\ gk.sigma > 0 /\ gk.S > gk.K
    /\ gk.d1 = PInf
    /\ gk_out.name = "delta" /\ gk_out.value = SC
    /\ GkBlackScholes.value = gk.S - gk.K

\* ----------------------------------------------------------------------
\* Runs of the portfolio page
\* ----------------------------------------------------------------------

\* The longest portfolio the model builds.
MaxLen == 3

\* What the widgets of lines 44-57 can hold.  Strike and premium are number
\* inputs without a minimum; the volatility slider runs from 5.0 to 200.0 and
\* the page stores its value as it is.
PfOptionTypes == { "call", "put" }

PfStrikes == { 0, 100 * SC }

PfQtyInputs == { 1 }

PfPositionTypes == { "Long", "Short" }

PfExpiries == { 0 }

PfVolatilities == { 25 * SC }

PfPremiums == { 5 * SC }

\* The first run of the page in a session: line 30 stores the demo portfolio.
PfLoad ==
    /\ ~pf_loaded
    /\ pf_loaded' = TRUE
    /\ portfolio' = demo_portfolio
    /\ pf_event' = [kind |-> "load"]
    /\ pf_view' = pf_evaluate(portfolio')
    /\ UNCHANGED << bs_vars, gk_vars, sim_vars, ch_vars >>

\* A run with no button pressed (a widget was changed, the page was reopened).
PfRerun ==
    /\ pf_loaded
    /\ pf_event' = [kind |-> "rerun"]
    /\ pf_view' = pf_evaluate(portfolio)
    /\ UNCHANGED << pf_loaded, portfolio, bs_vars, gk_vars, sim_vars, ch_vars >>

\* A run with 'Add to Portfolio' pressed.
PfAdd ==
    /\ pf_loaded
    /\ Len(portfolio) < MaxLen
    /\ \E ot \in PfOptionTypes, strike \in PfStrikes, qi \in PfQtyInputs,
          pt \in PfPositionTypes, expiry \in PfExpiries, iv \in PfVolatilities,
          premium \in PfPremiums :
            LET option == Position(ot, strike, pf_qty(qi, pt), expiry, iv, premium)
            IN  /\ portfolio' = pf_append(portfolio, option)
                /\ pf_event' = [kind |-> "add", option |-> option, iv_slider |-> iv]
    /\ pf_view' = pf_evaluate(portfolio')
    /\ UNCHANGED << pf_loaded, bs_vars, gk_vars, sim_vars, ch_vars >>

\* A run with 'Clear Portfolio' pressed.
PfClear ==
    /\ pf_loaded
    /\ portfolio' = << >>
    /\ pf_event' = [kind |-> "clear"]
    /\ pf_view' = pf_evaluate(portfolio')
    /\ UNCHANGED << pf_loaded, bs_vars, gk_vars, sim_vars, ch_vars >>

PfInit == PfIdle /\ BsIdle /\ GkIdle /\ SimIdle /\ ChIdle

PfNext == PfLoad \/ PfRerun \/ PfAdd \/ PfClear

SpecPortfolio == PfInit /\ [][PfNext]_vars

\* ----------------------------------------------------------------------
\* Claims about the portfolio page (checked under SpecPortfolio)
\* ----------------------------------------------------------------------

\* C8: the portfolio is an insertion-ordered sequence with duplicates allowed:
\* a run with Add pressed appends exactly the new position at the end and leaves
\* the positions before it as they were, also when an equal position is held; a
\* run with Clear pressed empties it; any other run after the first leaves it
\* as it is.
C8_InsertionOrder ==
    [][ /\ pf_event'.kind = "add" => portfolio' = Append(portfolio, pf_event'.option)
        /\ pf_event'.kind = "clear" => portfolio' = << >>
        /\ pf_event'.kind = "rerun" => portfolio' = portfolio
        /\ pf_event'.kind = "load" => (~pf_loaded /\ portfolio' = demo_portfolio)
      ]_vars

\* C8's case: Add was pressed for a position equal to one already held, and
\* the portfolio holds both.
C8_Witness ==
    /\ pf_event.kind = "add"
    /\ Len(portfolio) = 3
    /\ portfolio[3] = pf_event.option
    /\ \E i \in 1..2 : portfolio[i] = portfolio[3]

\* The plain sum over the positions of quantity * (intrinsic value - premium).
PlainPayoffSum(pf, S) ==
    LET sum[n \in 0..Len(pf)] ==
            IF n = 0 THEN 0
            ELSE sum[n - 1]
                   + pf[n].qty
                       * ((IF pf[n].option_type = "call"
                           THEN Max(S - pf[n].strike, 0)
                           ELSE Max(pf[n].strike - S, 0)) - pf[n].premium)
    IN  sum[Len(pf)]

\* The portfolio is exactly one long call of quantity 1.
OneLongCall ==
    /\ Len(portfolio) = 1
    /\ portfolio[1].option_type = "call"
    /\ portfolio[1].qty = 1

\* C9: at every grid price the payoff drawn is the plain sum over the positions
\* of quantity * (intrinsic value - premium); for a portfolio of exactly one
\* long call of quantity 1 it is -premium at every grid price S <= strike, and
\* the sum at S = strike is -premium.
C9_PayoffAggregation ==
    pf_view.shown =>
        /\ \A i \in 1..GridPoints :
              pf_view.total_payoff[i] = PlainPayoffSum(portfolio, pf_view.S_range[i])
        /\ OneLongCall =>
              /\ \A i \in 1..GridPoints :
                    pf_view.S_range[i] <= portfolio[1].strike
                        => pf_view.total_payoff[i] = -portfolio[1].premium
              /\ pf_payoff_at(portfolio, portfolio[1].strike) = -portfolio[1].premium

\* C9's case: one long call of quantity 1 at a positive strike is drawn: the
\* grid has prices below the strike, where the payoff is -premium, and above
\* it, where it is larger.
C9_Witness ==
    /\ pf_view.shown /\ OneLongCall
    /\ portfolio[1].strike > 0
    /\ \E i \in 1..GridPoints :
          /\ pf_view.S_range[i] < portfolio[1].strike
          /\ pf_view.total_payoff[i] = -portfolio[1].premium
    /\ \E i \in 1..GridPoints :
          /\ pf_view.S_range[i] > portfolio[1].strike
          /\ pf_view.total_payoff[i] > -portfolio[1].premium

\* C10 as stated: every position held satisfies option_type in {call, put},
\* strike > 0, implied_volatility > 0 and premium >= 0.
C10_OptionSpecInvariants ==
    \A i \in 1..Len(portfolio) :
        /\ portfolio[i].option_type \in {"call", "put"}
        /\ portfolio[i].strike > 0
        /\ portfolio[i].implied_volatility > 0
        /\ portfolio[i].premium >= 0

\* C18: every position is evaluated with its volatility as a fraction, like
\* the demo positions' 0.25 and 0.30: after 'Add to Portfolio' with the slider
\* at p percent, GreekCalculator gets sigma = p / 100 for the new position, and
\* no position's sigma exceeds the slider's maximum of 200 percent, 2.0.
C18_VolatilityScale ==
    /\ pf_event.kind = "add" =>
          /\ pf_view.shown
          /\ pf_view.greek_calls[Len(portfolio)].sigma = TDiv(pf_event.iv_slider, 100)
    /\ \A i \in 1..Len(pf_view.greek_calls) : pf_view.greek_calls[i].sigma <= 2 * SC

\* ----------------------------------------------------------------------
\* Runs of the simulation page
\* ----------------------------------------------------------------------

\* The number of simulations the model follows in one session.
MaxRuns == 2

\* The sliders of lines 42-43 run from 10 to 500 steps and from 100 to 1000
\* paths; the model takes these many, always at least one.
MaxSteps == 3

MaxPaths == 2

SimStepCounts == { MaxSteps }

SimPathCounts == { MaxPaths }

\* What the text box of line 35 can hold: "0.5", "0", "-1" (which line 36
\* turns into 1.0).
SimTimeTexts == { << "0", ".", "5" >>, << "0" >>, << "-", "1" >> }

SimOptionTypes == { "call", "put" }

\* Volatility (line 23) and risk-free rate in percent (line 40) as entered:
\* the defaults 0.2 and 5.0, and zero in either box.
SimVolRates == { << 200, 5 * SC >>, << 0, 5 * SC >>, << 0, 0 >> }

\* The states the process may find np.random's generator in: it is seeded from
\* the operating system when numpy is imported.
SimSeeds == { 1, 2 }

SimInit ==
    /\ rng \in SimSeeds
    /\ sim = NoSimulation
    /\ sim_log = << >>
    /\ BsIdle /\ GkIdle /\ PfIdle /\ ChIdle

\* A run of the page with 'Run Simulation' pressed (lines 52-99).
SimRunSimulation ==
    /\ Len(sim_log) < MaxRuns
    /\ \E ot \in SimOptionTypes, text \in SimTimeTexts, N \in SimStepCounts,
          M \in SimPathCounts, vr \in SimVolRates :
            LET in == sim_inputs(100 * SC, 50, vr[1], ot, 100 * SC, 5 * SC, text, 1,
                                 vr[2], N, M)
                S_paths == sim_paths(in, rng)
            IN  /\ sim' = sim_run(in, S_paths)
                /\ rng' = rng_after(rng, M * N)
                /\ sim_log' = Append(sim_log, [ in |-> in, T_input |-> text,
                                                pnl_paths |-> sim'.pnl_paths,
                                                S_paths |-> S_paths ])
    /\ UNCHANGED << bs_vars, gk_vars, pf_vars, ch_vars >>

\* A run of the page without the button: it draws what the session holds.
SimRerun == UNCHANGED vars

SimNext == SimRunSimulation \/ SimRerun

SpecSimulation == SimInit /\ [][SimNext]_vars

\* ----------------------------------------------------------------------
\* Claims about the simulation page (checked under SpecSimulation)
\* ----------------------------------------------------------------------

\* The inputs of the run whose result the session holds.
SimLast == sim_log[Len(sim_log)].in

\* C6 as stated: no run with T <= 0 or N <= 0 stores a result, and no stored
\* result has an empty trajectory.
C6_FailFast ==
    sim.sim_ran =>
        /\ SimLast.T > 0 /\ SimLast.N > 0
        /\ \A k \in 1..Len(sim.stock_paths) :
              sim.stock_paths[k] # << >> /\ sim.delta_paths[k] # << >>

\* C7 as stated: two runs with identical parameters produce identical PnL
\* sequences (the page offers no seed to fix besides them).
C7_Reproducible ==
    \A i, j \in 1..Len(sim_log) :
        sim_log[i].in = sim_log[j].in => sim_log[i].pnl_paths = sim_log[j].pnl_paths

\* The run whose result the session holds, as logged.
SimLastRun == sim_log[Len(sim_log)]

\* The cash account after n steps, from the deltas and prices of those steps:
\* each step first pays for the change of delta, then accrues interest.
RECURSIVE C14_Cash(_, _, _, _)
C14_Cash(deltas, prices, growth, n) ==
    IF n = 0 THEN 0
    ELSE LET before == IF n = 1 THEN 0 ELSE deltas[n - 1]
             traded == XSub(C14_Cash(deltas, prices, growth, n - 1),
                            XMul(XSub(deltas[n], before), prices[n]))
         IN  XMul(traded, growth)

\* C14: per path, cash and the previous delta start at 0; step i takes the
\* Black-Scholes delta at S_i and tau = T - i*dt, pays (delta_i - delta_{i-1})
\* * S_i out of cash and only then multiplies cash by exp(r*dt); the PnL is
\* ((delta_last * S_T + cash) - payoff) * qty - premium * qty with the call or
\* put payoff at the path's final price. The steps are i = 0..N-1 whenever
\* T > 0 (with T = 0 the loop breaks before its first step and the books stay 0).
C14_HedgeBookkeeping ==
    sim.sim_ran =>
        LET in == SimLast
        IN  \A k \in 1..in.M :
              LET deltas == sim.delta_paths[k]
                  path == SimLastRun.S_paths[k]
                  n == Len(deltas)
                  S_T == path[in.N + 1]
                  payoff == IF in.option_type = "call" THEN Max(S_T - in.strike, 0)
                            ELSE Max(in.strike - S_T, 0)
                  delta_last == IF n = 0 THEN 0 ELSE deltas[n]
                  cash == C14_Cash(deltas, path, FExp(FMul(in.r, in.dt)), n)
              IN  /\ in.T > 0 => n = in.N
                  /\ \A i \in 0..(n - 1) :
                       deltas[i + 1] = bs_delta(path[i + 1], in.strike, in.T - i * in.dt,
                                                in.r, in.sigma, in.option_type)
                  /\ sim.pnl_paths[k]
                       = XSub(XTimes(XSub(XAdd(XMul(delta_last, S_T), cash), payoff), in.qty),
                              in.premium * in.qty)

\* A run with interest and volatility in which the hedge of a path was traded
\* at every step.
C14_Witness ==
    /\ sim.sim_ran /\ SimLast.T > 0 /\ SimLast.r > 0 /\ SimLast.sigma > 0
    /\ \E k \in 1..SimLast.M :
         /\ Len(sim.delta_paths[k]) = SimLast.N
         /\ \A i \in 1..(SimLast.N - 1) : sim.delta_paths[k][i] # sim.delta_paths[k][i + 1]
         /\ IsFinite(sim.pnl_paths[k])

\* C15: after a run with T > 0 the session holds M PnL values, M price
\* trajectories and M delta trajectories, the k-th of each from the k-th path;
\* the loop never stops early, so each trajectory has the N entries of steps
\* 0..N-1 in time order, and the time grid has N + 1 points.
C15_ResultShape ==
    (sim.sim_ran /\ SimLast.T > 0) =>
        LET in == SimLast
        IN  /\ Len(sim.pnl_paths) = in.M
            /\ Len(sim.stock_paths) = in.M
            /\ Len(sim.delta_paths) = in.M
            /\ Len(sim.t_vals) = in.N + 1
            /\ \A i \in 1..in.N : sim.t_vals[i] < sim.t_vals[i + 1]
            /\ \A k \in 1..in.M :
                 /\ Len(sim.stock_paths[k]) = in.N
                 /\ Len(sim.delta_paths[k]) = in.N
                 /\ sim.stock_paths[k] = SubSeq(SimLastRun.S_paths[k], 1, in.N)
                 /\ \A i \in 1..in.N :
                      sim.delta_paths[k][i]
                          = bs_delta(SimLastRun.S_paths[k][i], in.strike,
                                     in.T - (i - 1) * in.dt, in.r, in.sigma, in.option_type)

\* A run with T > 0 whose paths differ from each other.
C15_Witness ==
    /\ sim.sim_ran /\ SimLast.T > 0 /\ SimLast.sigma > 0
    /\ Len(sim.stock_paths) = SimLast.M
    /\ \E k \in 2..SimLast.M :
         /\ sim.stock_paths[k] # sim.stock_paths[1]
         /\ sim.delta_paths[k] # sim.delta_paths[1]

\* C16: with sigma = 0 and T > 0 the PnL of a run does not depend on the draws:
\* its M values are one and the same number, not nan, and a run from another
\* state of the generator gives the same number.
C16_ZeroVolOnePnL ==
    /\ (sim.sim_ran /\ SimLast.sigma = 0 /\ SimLast.T > 0) =>
          \A k \in 1..SimLast.M :
              sim.pnl_paths[k] = sim.pnl_paths[1] /\ IsFinite(sim.pnl_paths[k])
    /\ \A i, j \in 1..Len(sim_log) :
          (sim_log[i].in = sim_log[j].in /\ sim_log[i].in.sigma = 0 /\ sim_log[i].in.T > 0)
              => sim_log[i].pnl_paths = sim_log[j].pnl_paths

\* ----------------------------------------------------------------------
\* Runs of the option-chain page's fetch, and calls of load_demo_option
\* ----------------------------------------------------------------------

\* Expiry dates the network sources list.
ChExpiryA == DateKey(130)

ChExpiryB == DateKey(160)

\* What yfinance may answer: a listing, an exception, an empty history, no expiries.
PrimaryResponses ==
    { [ raises |-> x[1], history_empty |-> x[2], expiries |-> x[3],
        close |-> 100 * SC, calls |-> << 1 >>, puts |-> << 2 >> ] :
      x \in { << FALSE, FALSE, << ChExpiryA, ChExpiryB >> >>,
              << FALSE, FALSE, << ChExpiryA >> >>,
              << TRUE, FALSE, << >> >>,
              << FALSE, TRUE, << ChExpiryA >> >>,
              << FALSE, FALSE, << >> >> } }

\* What the option API may answer: a listing, an exception of requests.get,
\* a status other than 200, a body without one of the two keys.
SecondaryResponses ==
    { [ raises |-> x[1], status_code |-> x[2], has_price |-> x[3], has_expires |-> x[4],
        price |-> 101 * SC, expires |-> << ChExpiryA, ChExpiryB >> ] :
      x \in { << FALSE, 200, TRUE, TRUE >>, << TRUE, 0, FALSE, FALSE >>,
              << FALSE, 404, TRUE, TRUE >>, << FALSE, 200, TRUE, FALSE >> } }

\* Labels of the bundled dataset.
LabelToday7 == << "t", "o", "d", "a", "y", " ", "+", " ", "7" >>

LabelToday30 == << "t", "o", "d", "a", "y", " ", "+", " ", "3", "0" >>

LabelIso == << "2", "0", "2", "5", "-", "0", "6", "-", "2", "0" >>

ChEntry(label, n) == [ label |-> label, calls |-> << n >>, puts |-> << n + 1 >> ]

\* Contents the file demo_data/demo_option.json may have.
DemoFiles ==
    { [ stock_price |-> 102 * SC, option_chain |-> oc ] :
      oc \in { << ChEntry(LabelToday7, 10), ChEntry(LabelToday30, 20) >>,
               << ChEntry(LabelToday7, 10), ChEntry(LabelIso, 30) >>,
               << ChEntry(LabelIso, 30) >>,
               << ChEntry(LabelToday30, 20), ChEntry(LabelIso, 30),
                  ChEntry(LabelToday7, 10) >> } }

\* datetime.today().date() on the day of the run.
Todays == { 100, 101 }

\* Reference dates a caller of load_demo_option may pass.
ReferenceDates == { NoDate, 100, 50 }

ChInit ==
    /\ ch_env \in
         { [ mode |-> "page", primary |-> p, secondary |-> s, today |-> t, data |-> d,
             reference_date |-> NoDate ] :
           p \in PrimaryResponses, s \in SecondaryResponses, t \in Todays,
           d \in DemoFiles }
         \cup
         { [ mode |-> "call", primary |-> p, secondary |-> s, today |-> t, data |-> d,
             reference_date |-> ref ] :
           p \in { q \in PrimaryResponses : q.raises },
           s \in { q \in SecondaryResponses : q.raises }, t \in Todays,
           d \in DemoFiles, ref \in ReferenceDates }
    /\ ch_pc = "start"
    /\ ch_contacted = << >>
    /\ ch_page = NoPage
    /\ BsIdle /\ GkIdle /\ PfIdle /\ SimIdle

\* The page's names after a fetch that returned.
ChFetchedPage(f) ==
    [ ticker |-> f.ticker, S |-> f.S, all_expiries |-> f.all_expiries, lookups |-> << >> ]

\* theOptionChain.py line 44 into utils.py lines 12-23: the yfinance tier.
ChPrimary ==
    /\ ch_env.mode = "page" /\ ch_pc = "start"
    /\ LET f == yf_fetch(ch_env.primary)
       IN  /\ ch_contacted' = Append(ch_contacted, "primary")
           /\ ch_pc' = IF f.ok THEN "fetched" ELSE "primary_failed"
           /\ ch_page' = IF f.ok THEN ChFetchedPage(f) ELSE ch_page
    /\ UNCHANGED << ch_env, bs_vars, gk_vars, pf_vars, sim_vars >>

\* utils.py lines 26-51: the API tier; its failure leaves get_ticker_data by
\* the RuntimeError of line 51.
ChSecondary ==
    /\ ch_pc = "primary_failed"
    /\ LET f == api_fetch(ch_env.secondary)
       IN  /\ ch_contacted' = Append(ch_contacted, "secondary")
           /\ ch_pc' = IF f.ok THEN "fetched" ELSE "RuntimeError"
           /\ ch_page' = IF f.ok THEN ChFetchedPage(f) ELSE ch_page
    /\ UNCHANGED << ch_env, bs_vars, gk_vars, pf_vars, sim_vars >>

\* theOptionChain.py lines 57-64: the except branch loads the bundled dataset.
ChLoadDemo ==
    /\ ch_pc = "RuntimeError"
    /\ LET ticker == load_demo_option(ch_env.data, NoDate, ch_env.today)
       IN  /\ ch_contacted' = Append(ch_contacted, "static")
           /\ ch_pc' = "fetched"
           /\ ch_page' = [ ticker |-> ticker, S |-> ticker.stock_price,
                           all_expiries |-> oc_all_expiries(ticker.option_chain),
                           lookups |-> << >> ]
    /\ UNCHANGED << ch_env, bs_vars, gk_vars, pf_vars, sim_vars >>

\* theOptionChain.py lines 66-88: the chains of the expiries selected by default;
\* a lookup that raises is outside the try block and ends the run.
ChLookups ==
    /\ ch_pc = "fetched"
    /\ LET selected == default_expiries(ch_page.all_expiries)
           lookups == page_lookups(ch_page.ticker, selected, Len(selected))
       IN  /\ ch_page' = [ ch_page EXCEPT !.lookups = lookups ]
           /\ ch_pc' = IF \A i \in 1..Len(lookups) : lookups[i].tag = "return"
                       THEN "shown" ELSE "crashed"
    /\ UNCHANGED << ch_env, ch_contacted, bs_vars, gk_vars, pf_vars, sim_vars >>

\* A call load_demo_option(path, reference_date) from outside the page.
ChLoadDirect ==
    /\ ch_env.mode = "call" /\ ch_pc = "start"
    /\ LET ticker == load_demo_option(ch_env.data, ch_env.reference_date, ch_env.today)
       IN  /\ ch_contacted' = Append(ch_contacted, "static")
           /\ ch_pc' = "loaded"
           /\ ch_page' = [ ticker |-> ticker, S |-> ticker.stock_price,
                           all_expiries |-> oc_all_expiries(ticker.option_chain),
                           lookups |-> << >> ]
    /\ UNCHANGED << ch_env, bs_vars, gk_vars, pf_vars, sim_vars >>

ChNext == ChPrimary \/ ChSecondary \/ ChLoadDemo \/ ChLookups \/ ChLoadDirect

SpecChain == ChInit /\ [][ChNext]_vars


\* ----------------------------------------------------------------------
\* Claims about the data sources (checked under SpecChain)
\* ----------------------------------------------------------------------

\* The first tier failed: an exception, an empty history, or no expiries.
PrimaryFailed ==
    \/ ch_env.primary.raises
    \/ ch_env.primary.history_empty
    \/ Len(ch_env.primary.expiries) = 0

\* The second tier failed: an exception, a status other than 200, a missing key.
SecondaryFailed ==
    \/ ch_env.secondary.raises
    \/ ch_env.secondary.status_code # 200
    \/ ~(ch_env.secondary.has_price /\ ch_env.secondary.has_expires)

TierOrder == << "primary", "secondary", "static" >>

\* C11: in a run of the page the sources are asked in the order primary,
\* secondary, static; the secondary only after the primary failed, the static
\* dataset only after both failed, no later source once an earlier one
\* succeeded, and get_ticker_data raises RuntimeError only when both network
\* sources failed.
C11_FallbackOrder ==
    ch_env.mode = "page" =>
        /\ Len(ch_contacted) <= 3
        /\ ch_contacted = SubSeq(TierOrder, 1, Len(ch_contacted))
        /\ Len(ch_contacted) >= 2 => PrimaryFailed
        /\ Len(ch_contacted) >= 3 => (PrimaryFailed /\ SecondaryFailed)
        /\ ~PrimaryFailed => Len(ch_contacted) <= 1
        /\ (PrimaryFailed /\ ~SecondaryFailed) => Len(ch_contacted) <= 2
        /\ ch_pc = "RuntimeError" => (PrimaryFailed /\ SecondaryFailed)
        /\ ch_page.ticker.source = "primary" => ch_contacted = << "primary" >>
        /\ ch_page.ticker.source = "secondary" => ch_contacted = << "primary", "secondary" >>
        /\ ch_page.ticker.source = "static" => ch_contacted = TierOrder

\* A run that fell through both network sources to the bundled dataset.
C11_Witness ==
    /\ ch_env.mode = "page" /\ ch_pc = "shown"
    /\ ch_contacted = TierOrder
    /\ ch_page.ticker.source = "static"

\* C12: whichever source answered, the page holds a spot price and a list of
\* expiries, ticker.option_chain(expiry) returns a calls and a puts table for
\* every listed expiry, and the page's own lookups end without an error.
C12_ChainForEveryTier ==
    (ch_env.mode = "page" /\ ch_pc \in { "fetched", "shown", "crashed" }) =>
        /\ ch_page.S > 0
        /\ Len(ch_page.all_expiries) > 0
        /\ \A i \in 1..Len(ch_page.all_expiries) :
             chain_lookup(ch_page.ticker, ch_page.all_expiries[i]).tag = "return"
        /\ ch_pc # "crashed"

\* The key the claim gives a label for the reference date d.
C13_ExpectedKey(label, d) ==
    IF label = LabelToday7 THEN DateKey(d + 7)
    ELSE IF label = LabelToday30 THEN DateKey(d + 30)
    ELSE TextKey(label)

\* C13: load_demo_option(path, reference_date=d) yields a chain whose expiry
\* keys are d + N days for every label 'today + N' and the label itself for
\* every other label, whatever today's date is.
C13_ReferenceDate ==
    (ch_env.mode = "call" /\ ch_pc = "loaded" /\ ch_env.reference_date # NoDate) =>
        LET labels == ch_env.data.option_chain
        IN  /\ Len(ch_page.all_expiries) = Len(labels)
            /\ \A i \in 1..Len(labels) :
                 ch_page.all_expiries[i]
                     = C13_ExpectedKey(labels[i].label, ch_env.reference_date)

====
